---- MODULE Spec2Model ----
(***************************************************************************)
(* Personal-Finance-Tracker: the ledger stores (database/transactions.txt, *)
(* database/budgets.txt) and the operations of the CLI features and of the *)
(* Streamlit pages (main.py) that append to them and aggregate over them.  *)
(*                                                                         *)
(* Text is modelled character by character: a Python str is a sequence of  *)
(* one-character strings, a store is the sequence of its lines (without    *)
(* the terminating newline), and split / strip / int / strptime / str are  *)
(* computed on the characters.  A missing file and an empty file are the   *)
(* same store: every reader treats FileNotFoundError as "no lines".        *)
(***************************************************************************)
EXTENDS Integers, Sequences, FiniteSets, TLC

VARIABLES
    txStore,      \* database/transactions.txt, one element per line
    budgetStore,  \* database/budgets.txt, one element per line
    goalStore,    \* database/goals.txt, one element per line
    today,        \* datetime.now(): [year, month, day]
    out           \* what the last operation did and displayed

vars == <<txStore, budgetStore, goalStore, today, out>>

(***************************************************************************)
(* Bounds of the model.                                                    *)
(***************************************************************************)
MaxTx == 2
MaxBudgets == 1

\* the number of budget lines the last-wins property is checked up to
MaxBudgetAppends == 4

\* the number of goals set
MaxGoals == 2

\* the years the reference dates of the calendar properties range over
FirstYear == 2023
LastYear == 2024

(***************************************************************************)
(* Characters and Python's str operations.                                 *)
(***************************************************************************)
Digits == <<"0","1","2","3","4","5","6","7","8","9">>

UpperCase == <<"A","B","C","D","E","F","G","H","I","J","K","L","M",
               "N","O","P","Q","R","S","T","U","V","W","X","Y","Z">>

LowerCase == <<"a","b","c","d","e","f","g","h","i","j","k","l","m",
               "n","o","p","q","r","s","t","u","v","w","x","y","z">>

DigitSet == {Digits[i] : i \in 1..10}

IsDigitCh(c) == c \in DigitSet

DigitOf == [c \in DigitSet |-> (CHOOSE i \in 1..10 : Digits[i] = c) - 1]

DigitVal(c) == DigitOf[c]

IsSpaceCh(c) == c \in {" ", "\t", "\n", "\r"}

\* str.isdigit(): non-empty and every character a digit
isdigit(s) == Len(s) > 0 /\ \A i \in 1..Len(s) : IsDigitCh(s[i])

\* str.lower()
UpperSet == {UpperCase[k] : k \in 1..26}

LowerOf == [c \in UpperSet |-> LowerCase[CHOOSE k \in 1..26 : UpperCase[k] = c]]

LowerCh(c) == IF c \in UpperSet THEN LowerOf[c] ELSE c

lower(s) == [i \in 1..Len(s) |-> LowerCh(s[i])]

\* str.strip(): whitespace removed at both ends
RECURSIVE strip(_)
strip(s) ==
    IF Len(s) = 0 THEN s
    ELSE IF IsSpaceCh(s[1]) THEN strip(Tail(s))
    ELSE IF IsSpaceCh(s[Len(s)]) THEN strip(SubSeq(s, 1, Len(s) - 1))
    ELSE s

\* str.split(sep) for a one-character separator: the pieces between the
\* separators, "" splits into [""]
RECURSIVE SplitFrom(_, _, _, _, _)
SplitFrom(s, sep, start, i, acc) ==
    IF i > Len(s) THEN Append(acc, SubSeq(s, start, Len(s)))
    ELSE IF s[i] = sep
    THEN SplitFrom(s, sep, i + 1, i + 1, Append(acc, SubSeq(s, start, i - 1)))
    ELSE SplitFrom(s, sep, start, i + 1, acc)

split(s, sep) == SplitFrom(s, sep, 1, 1, <<>>)

\* str.replace(old, "", 1) for a one-character old: the first occurrence removed
replace_first(s, old) ==
    LET hits == {i \in 1..Len(s) : s[i] = old}
    IN  IF hits = {} THEN s
        ELSE LET k == CHOOSE i \in hits : \A j \in hits : i <= j
             IN  SubSeq(s, 1, k - 1) \o SubSeq(s, k + 1, Len(s))

\* ",".join(parts), and the f-string "a,b,c,..." of the writers
RECURSIVE join(_, _)
join(parts, sep) ==
    IF Len(parts) = 0 THEN <<>>
    ELSE IF Len(parts) = 1 THEN parts[1]
    ELSE parts[1] \o <<sep>> \o join(Tail(parts), sep)

\* the value of a run of decimal digits
RECURSIVE DigitsValueFrom(_, _, _)
DigitsValueFrom(s, i, acc) ==
    IF i > Len(s) THEN acc ELSE DigitsValueFrom(s, i + 1, 10 * acc + DigitVal(s[i]))

DigitsValue(s) == DigitsValueFrom(s, 1, 0)

\* int(s): surrounding whitespace and one sign are accepted, then digits only;
\* anything else raises ValueError (ok = FALSE)
IntOfStripped(t) ==
    IF Len(t) > 0 /\ t[1] = "-"
    THEN (IF isdigit(Tail(t)) THEN [ok |-> TRUE, val |-> 0 - DigitsValue(Tail(t))]
          ELSE [ok |-> FALSE, val |-> 0])
    ELSE IF Len(t) > 0 /\ t[1] = "+"
    THEN (IF isdigit(Tail(t)) THEN [ok |-> TRUE, val |-> DigitsValue(Tail(t))]
          ELSE [ok |-> FALSE, val |-> 0])
    ELSE IF isdigit(t) THEN [ok |-> TRUE, val |-> DigitsValue(t)]
    ELSE [ok |-> FALSE, val |-> 0]

int(s) == IntOfStripped(strip(s))

\* str(n) of an int, as the f-strings of the writers format an amount
RECURSIVE NatStr(_)
NatStr(n) ==
    IF n < 10 THEN <<Digits[n + 1]>>
    ELSE Append(NatStr(n \div 10), Digits[(n % 10) + 1])

str(n) == IF n < 0 THEN <<"-">> \o NatStr(0 - n) ELSE NatStr(n)

(***************************************************************************)
(* Calendar dates.                                                         *)
(***************************************************************************)
IsLeap(y) == (y % 4 = 0 /\ y % 100 # 0) \/ y % 400 = 0

DaysInMonth(y, m) ==
    IF m = 2 THEN (IF IsLeap(y) THEN 29 ELSE 28)
    ELSE IF m \in {4, 6, 9, 11} THEN 30 ELSE 31

\* datetime.strptime(s, '%Y-%m-%d'): four digits, one or two digits for a month
\* 1..12, one or two digits for a day that exists in that month; anything else
\* raises ValueError (ok = FALSE)
NoDate == [ok |-> FALSE, year |-> 0, month |-> 0, day |-> 0]

DateOf(y, m, d) ==
    IF y >= 1 /\ m \in 1..12 /\ d >= 1 /\ d <= DaysInMonth(y, m)
    THEN [ok |-> TRUE, year |-> y, month |-> m, day |-> d]
    ELSE NoDate

StrptimeParts(p) ==
    IF Len(p) # 3 THEN NoDate
    ELSE IF ~(Len(p[1]) = 4 /\ isdigit(p[1])) THEN NoDate
    ELSE IF ~(Len(p[2]) \in {1, 2} /\ isdigit(p[2])) THEN NoDate
    ELSE IF ~(Len(p[3]) \in {1, 2} /\ isdigit(p[3])) THEN NoDate
    ELSE DateOf(DigitsValue(p[1]), DigitsValue(p[2]), DigitsValue(p[3]))

strptime(s) == StrptimeParts(split(s, "-"))

\* zero-padded decimal of width w
RECURSIVE PadStr(_, _)
PadStr(n, w) == IF w = 0 THEN <<>> ELSE Append(PadStr(n \div 10, w - 1), Digits[(n % 10) + 1])

\* date.strftime('%Y-%m-%d')
strftime(date) ==
    PadStr(date.year, 4) \o <<"-">> \o PadStr(date.month, 2) \o <<"-">> \o PadStr(date.day, 2)

\* date.strftime('%Y-%m')
strftime_ym(date) == PadStr(date.year, 4) \o <<"-">> \o PadStr(date.month, 2)

\* date.toordinal(): the days from 0001-01-01, that day being 1
DaysBeforeYear(y) ==
    (y - 1) * 365 + ((y - 1) \div 4) - ((y - 1) \div 100) + ((y - 1) \div 400)

RECURSIVE DaysBeforeMonth(_, _)
DaysBeforeMonth(y, m) ==
    IF m = 1 THEN 0 ELSE DaysBeforeMonth(y, m - 1) + DaysInMonth(y, m - 1)

toordinal(date) == DaysBeforeYear(date.year) + DaysBeforeMonth(date.year, date.month) + date.day

\* date.fromordinal(n): the year and the month the n-th day falls in
MonthOfOrdinal(y, n) ==
    CHOOSE m \in 1..12 :
        DaysBeforeMonth(y, m) < n /\ n <= DaysBeforeMonth(y, m) + DaysInMonth(y, m)

DayOfYear(y, n) ==
    [year |-> y, month |-> MonthOfOrdinal(y, n), day |-> n - DaysBeforeMonth(y, MonthOfOrdinal(y, n))]

YearOfOrdinal(n) ==
    CHOOSE y \in (n \div 366)..((n \div 365) + 1) :
        DaysBeforeYear(y) < n /\ n <= DaysBeforeYear(y + 1)

fromordinal(n) == DayOfYear(YearOfOrdinal(n), n - DaysBeforeYear(YearOfOrdinal(n)))

\* date - timedelta(days=n)
MinusDays(date, n) == fromordinal(toordinal(date) - n)

\* date.replace(day=d)
replace_day(date, d) == [date EXCEPT !.day = d]

(***************************************************************************)
(* The texts the operations are tried on.                                  *)
(***************************************************************************)
kExpense == <<"e","x","p","e","n","s","e">>
kIncome == <<"i","n","c","o","m","e">>
kIncomeCap == <<"I","n","c","o","m","e">>
kTransfer == <<"t","r","a","n","s","f","e","r">>
cFood == <<"F","o","o","d">>
cBills == <<"B","i","l","l","s">>
cSalary == <<"S","a","l","a","r","y">>
dLunch == <<"L","u","n","c","h">>
dPay == <<"P","a","y">>
dComma == <<"a",",","b">>
dateCur == <<"2","0","2","4","-","0","5","-","1","0">>
dateOtherYear == <<"2","0","2","3","-","0","5","-","1","0">>
dateBad == <<"b","a","d">>
dateLead == <<" ","2","0","2","4","-","0","5","-","1","0">>
a5 == <<"5">>
a029 == <<"0",".","2","9">>
a0 == <<"0">>
a1 == <<"1">>
a10 == <<"1","0">>
a25 == <<"2",".","5">>
aNeg == <<"-","5">>
aInf == <<"i","n","f">>
aAbc == <<"a","b","c">>
aSmall == <<"0",".","0","0","1">>

\* the reference instants, datetime.now()
Todays == {[year |-> 2024, month |-> 5, day |-> 15]}

(***************************************************************************)
(* int(float(amount_str) * 100), the conversion of every writer from major *)
(* units to paisa.  The product is an IEEE-754 double and int() truncates  *)
(* it, so the table holds what CPython computes for each text: 0.29*100 is *)
(* 28.999999999999996, float("inf") is accepted and int() of it raises     *)
(* OverflowError, float("abc") raises ValueError.                          *)
(***************************************************************************)
ToPaisa(amount_str) ==
    CASE amount_str = a5   -> [kind |-> "ok", val |-> 500]
      [] amount_str = a029 -> [kind |-> "ok", val |-> 28]
      [] amount_str = a0   -> [kind |-> "ok", val |-> 0]
      [] amount_str = a1   -> [kind |-> "ok", val |-> 100]
      [] amount_str = a10  -> [kind |-> "ok", val |-> 1000]
      [] amount_str = a25  -> [kind |-> "ok", val |-> 250]
      [] amount_str = aSmall -> [kind |-> "ok", val |-> 0]
      [] amount_str = aNeg -> [kind |-> "ok", val |-> 0 - 500]
      [] amount_str = aInf -> [kind |-> "OverflowError", val |-> 0]
      [] OTHER             -> [kind |-> "ValueError", val |-> 0]

\* the questionary validator of the amount prompts:
\* text.replace('.', '', 1).isdigit()
AmountValidator(text) == isdigit(replace_first(text, "."))

(***************************************************************************)
(* The bulk loaders.                                                       *)
(***************************************************************************)
\* one line of "for line in f" in read_transactions / load_transactions, from
\* its fields: a line with another field count than five is skipped, a date
\* or an amount that does not parse raises ValueError, else the record is
\* appended
FieldsOutcome(parts, date, amount) ==
    IF ~date.ok \/ ~amount.ok THEN [kind |-> "raise"]
    ELSE [kind |-> "append",
          t |-> [date |-> [year |-> date.year, month |-> date.month, day |-> date.day],
                 type |-> parts[2],
                 category |-> parts[3],
                 description |-> parts[4],
                 amount |-> amount.val]]

LineOutcome(parts) ==
    IF Len(parts) # 5 THEN [kind |-> "skip"]
    ELSE FieldsOutcome(parts, strptime(parts[1]), int(parts[5]))

\* the loop.  The try encloses the whole loop: the ValueError of one line
\* ends it, and what was appended so far is returned.
RECURSIVE ParseTransactionLines(_, _, _)
ParseTransactionStep(lines, i, transactions, o) ==
    IF o.kind = "skip" THEN ParseTransactionLines(lines, i + 1, transactions)
    ELSE IF o.kind = "raise" THEN transactions
    ELSE ParseTransactionLines(lines, i + 1, Append(transactions, o.t))

ParseTransactionLines(lines, i, transactions) ==
    IF i > Len(lines) THEN transactions
    ELSE ParseTransactionStep(lines, i, transactions,
                              LineOutcome(split(strip(lines[i]), ",")))

read_transactions(lines) == ParseTransactionLines(lines, 1, <<>>)

\* main.py's cached copy of the same loader
load_transactions(lines) == ParseTransactionLines(lines, 1, <<>>)

\* a Python dict is a function on the keys it holds; d[k] = v
SetItem(d, k, v) == [x \in (DOMAIN d) \cup {k} |-> IF x = k THEN v ELSE d[x]]

\* dict.get(k, 0), and the read of a defaultdict(int)
Get(d, k) == IF k \in DOMAIN d THEN d[k] ELSE 0

\* d[k] = v where the code has d[k] += v: the faulty accumulation the
\* category sums are checked against
AddItemOverwriting(d, k, v) == SetItem(d, k, v)

\* d[k] += v on a defaultdict(int)
AddItem(d, k, v) == SetItem(d, k, Get(d, k) + v)

EmptyDict == [x \in {} |-> 0]

\* "for line in f" in read_budgets / load_budgets: a later line of a category
\* overwrites the earlier one; int() raising ends the loop
RECURSIVE ParseBudgetLines(_, _, _)

\* the loop keeping the first amount of a category: the faulty loader the
\* last-wins property is checked against
ParseBudgetStepFirstWins(lines, i, budgets, parts) ==
    IF Len(parts) # 2 THEN ParseBudgetLines(lines, i + 1, budgets)
    ELSE IF ~int(parts[2]).ok THEN budgets
    ELSE IF parts[1] \in DOMAIN budgets THEN ParseBudgetLines(lines, i + 1, budgets)
    ELSE ParseBudgetLines(lines, i + 1, SetItem(budgets, parts[1], int(parts[2]).val))

ParseBudgetStep(lines, i, budgets, parts) ==
    IF Len(parts) # 2 THEN ParseBudgetLines(lines, i + 1, budgets)
    ELSE IF ~int(parts[2]).ok THEN budgets
    ELSE ParseBudgetLines(lines, i + 1, SetItem(budgets, parts[1], int(parts[2]).val))

ParseBudgetLines(lines, i, budgets) ==
    IF i > Len(lines) THEN budgets
    ELSE ParseBudgetStep(lines, i, budgets, split(strip(lines[i]), ","))

read_budgets(lines) == ParseBudgetLines(lines, 1, EmptyDict)

load_budgets(lines) == ParseBudgetLines(lines, 1, EmptyDict)

(***************************************************************************)
(* The writers.                                                            *)
(***************************************************************************)
\* f"{date_str},{type},{category},{description},{amount}": the fields are
\* written as they are, a comma inside one of them is not escaped
TransactionLine(date_str, type, category, description, amount) ==
    join(<<date_str, type, category, description, str(amount)>>, ",")

\* f"{category},{amount_paisa}"
BudgetLine(category, amount_paisa) == join(<<category, str(amount_paisa)>>, ",")

\* what the prompts of add_expense / add_income are answered with
ExpenseForms ==
    {[amount_str |-> a5,   category |-> cFood, description |-> dLunch, date_str |-> dateCur],
     [amount_str |-> a029, category |-> cFood, description |-> dLunch, date_str |-> dateOtherYear],
     [amount_str |-> a5,   category |-> cFood, description |-> dLunch, date_str |-> dateBad],
     [amount_str |-> a5,   category |-> cFood, description |-> dLunch, date_str |-> dateLead],
     [amount_str |-> a0,   category |-> cFood, description |-> dLunch, date_str |-> dateCur]}

IncomeForms ==
    {[amount_str |-> a10,    category |-> cSalary, description |-> dPay, date_str |-> dateCur],
     [amount_str |-> aSmall, category |-> cSalary, description |-> dPay, date_str |-> dateCur]}

\* the shared body of add_expense and add_income after the prompts: the
\* validator admits the amount text, a paisa amount <= 0 is refused, the date
\* text and the description are written unchecked
AddTransactionAmount(op, type, form, amount) ==
    /\ IF amount <= 0
       THEN /\ out' = [op |-> op, status |-> "not_positive", form |-> form]
            /\ UNCHANGED txStore
       ELSE /\ Len(txStore) < MaxTx
            /\ txStore' = Append(txStore,
                                 TransactionLine(form.date_str, type, form.category,
                                                 form.description, amount))
            /\ out' = [op |-> op, status |-> "added", date_str |-> form.date_str,
                       type |-> type, category |-> form.category,
                       description |-> form.description, amount |-> amount]
    /\ UNCHANGED <<budgetStore, goalStore, today>>

AddTransaction(op, type, form) ==
    /\ AmountValidator(form.amount_str)
    /\ AddTransactionAmount(op, type, form, ToPaisa(form.amount_str).val)

add_expense == \E form \in ExpenseForms : AddTransaction("add_expense", kExpense, form)

add_income == \E form \in IncomeForms : AddTransaction("add_income", kIncome, form)

\* the form of transactions_page: the date widget yields a date, the amount
\* widget a float of at least 0.01 (given here by its decimal text)
WebTransactionForms ==
    {[date |-> [year |-> 2024, month |-> 5, day |-> 10], trans_type |-> kExpense,
      category |-> cBills, description |-> dLunch, amount |-> a25],
     [date |-> [year |-> 2024, month |-> 5, day |-> 10], trans_type |-> kIncome,
      category |-> cSalary, description |-> dComma, amount |-> a10]}

\* write_transaction_to_file(date, trans_type, category, description, amount_paisa)
write_transaction_to_file(date, trans_type, category, description, amount_paisa) ==
    txStore' = Append(txStore,
                      TransactionLine(strftime(date), trans_type, category,
                                      description, amount_paisa))

\* transactions_page, the form submitted
transactions_page_submit ==
    \E form \in WebTransactionForms :
        /\ Len(txStore) < MaxTx
        /\ write_transaction_to_file(form.date, form.trans_type, form.category,
                                     form.description, ToPaisa(form.amount).val)
        /\ out' = [op |-> "transactions_page", status |-> "added",
                   date_str |-> strftime(form.date), type |-> form.trans_type,
                   category |-> form.category, description |-> form.description,
                   amount |-> ToPaisa(form.amount).val]
        /\ UNCHANGED <<budgetStore, goalStore, today>>

\* float(text) > 0 for a text the amount validator admits
FloatPositive(text) == \E i \in 1..Len(text) : IsDigitCh(text[i]) /\ text[i] # "0"

\* what the prompts of set_budget are answered with
BudgetForms ==
    {[category |-> cFood, amount_str |-> a1],
     [category |-> cFood, amount_str |-> aSmall]}

\* set_budget answered with one of forms, while the file holds fewer than
\* limit lines: the validator admits a positive amount text, the paisa
\* amount is appended unchecked
SetBudget(forms, limit) ==
    \E form \in forms :
        /\ AmountValidator(form.amount_str) /\ FloatPositive(form.amount_str)
        /\ Len(budgetStore) < limit
        /\ budgetStore' = Append(budgetStore,
                                 BudgetLine(form.category, ToPaisa(form.amount_str).val))
        /\ out' = [op |-> "set_budget", status |-> "added", form |-> form]
        /\ UNCHANGED <<txStore, goalStore, today>>

set_budget == SetBudget(BudgetForms, MaxBudgets)

\* the form of budgets_page: the amount widget yields a float of at least 1.0
WebBudgetForms == {[category |-> cFood, amount |-> a1]}

\* write_budget_to_file(category, amount_paisa)
write_budget_to_file(category, amount_paisa) ==
    budgetStore' = Append(budgetStore, BudgetLine(category, amount_paisa))

\* budgets_page, one of forms submitted while the file holds fewer than
\* limit lines
BudgetsPageSubmit(forms, limit) ==
    \E form \in forms :
        /\ Len(budgetStore) < limit
        /\ write_budget_to_file(form.category, ToPaisa(form.amount).val)
        /\ out' = [op |-> "budgets_page", status |-> "added", form |-> form]
        /\ UNCHANGED <<txStore, goalStore, today>>

budgets_page_submit == BudgetsPageSubmit(WebBudgetForms, MaxBudgets)

(***************************************************************************)
(* CSV import.  A file is given by what csv.reader yields for it: the      *)
(* header row and the data rows, each a list of fields.                    *)
(***************************************************************************)
expected_header == <<"date", "type", "category", "description", "amount">>

rGood == <<dateCur, kExpense, cFood, dLunch, a5>>
rIncome == <<dateCur, kIncomeCap, cSalary, dPay, a10>>
rNegative == <<dateCur, kExpense, cFood, dLunch, aNeg>>
rBadDate == <<dateBad, kExpense, cFood, dLunch, a5>>
rBadAmount == <<dateCur, kExpense, cFood, dLunch, aAbc>>
rShort == <<dateCur, kExpense, cFood, a5>>
rInfinite == <<dateCur, kExpense, cFood, dLunch, aInf>>

CsvFiles ==
    [mixed      |-> [header |-> expected_header, rows |-> <<rGood, rBadDate, rIncome>>],
     twice      |-> [header |-> expected_header, rows |-> <<rGood, rGood>>],
     negative   |-> [header |-> expected_header, rows |-> <<rNegative, rShort>>],
     invalid    |-> [header |-> expected_header, rows |-> <<rBadAmount, rShort>>],
     infinite   |-> [header |-> expected_header, rows |-> <<rGood, rInfinite>>],
     badheader  |-> [header |-> <<"date", "amount">>, rows |-> <<rGood>>]]

\* one row of "for row in reader": the line the row would be stored as, or
\* "invalid" when unpacking, strptime or float raise ValueError.
\* OverflowError (int of an infinite float) is not caught in the loop.
RowOutcome(row) ==
    IF Len(row) # 5 THEN [kind |-> "invalid"]
    ELSE IF ~strptime(row[1]).ok THEN [kind |-> "invalid"]
    ELSE IF ToPaisa(row[5]).kind = "ValueError" THEN [kind |-> "invalid"]
    ELSE IF ToPaisa(row[5]).kind = "OverflowError" THEN [kind |-> "raise"]
    ELSE [kind |-> "valid",
          line |-> TransactionLine(row[1], lower(row[2]), row[3], row[4],
                                   ToPaisa(row[5]).val)]

\* the loop: new_transactions and invalid_rows, or raised when an exception
\* left it
RECURSIVE ClassifyRows(_, _, _, _)
ClassifyRow(rows, i, new_transactions, invalid_rows, o) ==
    IF o.kind = "invalid" THEN ClassifyRows(rows, i + 1, new_transactions, invalid_rows + 1)
    ELSE IF o.kind = "raise"
    THEN [raised |-> TRUE, new_transactions |-> new_transactions,
          invalid_rows |-> invalid_rows]
    ELSE ClassifyRows(rows, i + 1, Append(new_transactions, o.line), invalid_rows)

ClassifyRows(rows, i, new_transactions, invalid_rows) ==
    IF i > Len(rows)
    THEN [raised |-> FALSE, new_transactions |-> new_transactions,
          invalid_rows |-> invalid_rows]
    ELSE ClassifyRow(rows, i, new_transactions, invalid_rows, RowOutcome(rows[i]))

\* the row loop on each of the files
Classified == [f \in DOMAIN CsvFiles |-> ClassifyRows(CsvFiles[f].rows, 1, <<>>, 0)]

\* existing_transactions = set(line.strip() for line in f)
ExistingTransactions(lines) == {strip(lines[i]) : i \in 1..Len(lines)}

\* [t for t in new_transactions if t not in existing_transactions]
UniqueTransactionsToAdd(new_transactions, existing_transactions) ==
    SelectSeq(new_transactions, LAMBDA t : t \notin existing_transactions)

\* the same writes on a file opened with "w": the faulty write the
\* append-only property is checked against
AppendLinesTruncating(lines, to_add) == to_add

\* f.write(t_str + "\n") for every t_str, on the file opened with "a"
AppendLines(lines, to_add) == lines \o to_add

\* import_transactions_csv from the header check on
ImportFile(filepath, file, c, unique, summary) ==
    /\ UNCHANGED <<budgetStore, goalStore, today>>
    /\ IF file.header # expected_header
       THEN /\ out' = [op |-> "import_transactions_csv", filepath |-> filepath,
                       status |-> "invalid_header"]
            /\ UNCHANGED txStore
       ELSE IF c.raised
       THEN /\ out' = [op |-> "import_transactions_csv", filepath |-> filepath,
                       status |-> "error"]
            /\ UNCHANGED txStore
       ELSE IF Len(c.new_transactions) = 0 /\ c.invalid_rows > 0
       THEN /\ out' = [op |-> "import_transactions_csv", filepath |-> filepath,
                       status |-> "no_valid_rows", invalid |-> c.invalid_rows]
            /\ UNCHANGED txStore
       ELSE IF Len(unique) = 0
       THEN /\ out' = summary @@ [status |-> "nothing_new"]
            /\ UNCHANGED txStore
       ELSE \E confirm \in BOOLEAN :
            IF ~confirm
            THEN /\ out' = summary @@ [status |-> "cancelled"]
                 /\ UNCHANGED txStore
            ELSE /\ Len(txStore) + Len(unique) <= MaxTx
                 /\ txStore' = AppendLines(txStore, unique)
                 /\ out' = summary @@ [status |-> "imported"]

\* the "Import Summary" figures; duplicate_count is
\* len(new_transactions) - len(unique_transactions_to_add)
ImportSummary(filepath, c, unique) ==
    [op |-> "import_transactions_csv", filepath |-> filepath,
     found |-> Len(c.new_transactions), new |-> Len(unique),
     duplicates |-> Len(c.new_transactions) - Len(unique), invalid |-> c.invalid_rows]

ImportClassified(filepath, file, c, unique) ==
    ImportFile(filepath, file, c, unique, ImportSummary(filepath, c, unique))

\* import_transactions_csv: the path, and the answer to the confirmation
\* where it is asked
import_transactions_csv ==
    \E filepath \in DOMAIN CsvFiles :
        ImportClassified(filepath, CsvFiles[filepath], Classified[filepath],
                         UniqueTransactionsToAdd(Classified[filepath].new_transactions,
                                                 ExistingTransactions(txStore)))

\* the files uploaded to data_management_page, as pandas.read_csv yields
\* them: the columns and the rows, each amount a whole number
UploadedFiles ==
    [single    |-> [header |-> expected_header, rows |-> <<rGood>>],
     badheader |-> [header |-> <<"date", "amount">>, rows |-> <<rGood>>]]

\* f"{row['date']},{row['type']},{row['category']},{row['description']},
\* {int(float(row['amount'])*100)}" of every row: no validation, no lower(),
\* no look at the store
UploadedLines(rows) ==
    [i \in 1..Len(rows) |->
        TransactionLine(rows[i][1], rows[i][2], rows[i][3], rows[i][4],
                        ToPaisa(rows[i][5]).val)]

\* data_management_page, a file uploaded and "Import Data" pressed
data_management_page_import ==
    \E name \in DOMAIN UploadedFiles :
        /\ UNCHANGED <<budgetStore, goalStore, today>>
        /\ IF UploadedFiles[name].header # expected_header
           THEN /\ out' = [op |-> "data_management_page", filepath |-> name,
                           status |-> "invalid_format"]
                /\ UNCHANGED txStore
           ELSE /\ Len(txStore) + Len(UploadedFiles[name].rows) <= MaxTx
                /\ txStore' = AppendLines(txStore, UploadedLines(UploadedFiles[name].rows))
                /\ out' = [op |-> "data_management_page", filepath |-> name,
                           status |-> "imported",
                           written |-> Len(UploadedFiles[name].rows)]

(***************************************************************************)
(* The aggregations.  Each "for t in transactions" loop and each           *)
(* sum(... for t in ... if ...) is a left fold over the loaded list.       *)
(***************************************************************************)
RECURSIVE FoldLeft(_, _, _)
FoldLeft(f(_, _), acc, s) ==
    IF Len(s) = 0 THEN acc ELSE FoldLeft(f, f(acc, s[1]), Tail(s))

\* sum(t["amount"] for t in transactions if cond(t))
SumAmounts(transactions, cond(_)) ==
    FoldLeft(LAMBDA acc, t : IF cond(t) THEN acc + t.amount ELSE acc, 0, transactions)

\* sum(d.values())
SumValues(d) ==
    LET RECURSIVE SumOver(_)
        SumOver(keys) ==
            IF keys = {} THEN 0
            ELSE LET k == CHOOSE x \in keys : TRUE IN d[k] + SumOver(keys \ {k})
    IN  SumOver(DOMAIN d)

\* t["date"].month == now.month and t["date"].year == now.year
SameMonthAndYear(t, now) == t.date.month = now.month /\ t.date.year = now.year

\* t["date"].month == now.month, the filter of the sites that do not look at
\* the year
SameMonth(t, now) == t.date.month = now.month

\* the first of the month thirty days earlier: the faulty step the
\* last-month property is checked against
LastMonthStartThirtyDays(now) == replace_day(MinusDays(replace_day(now, 1), 30), 1)

\* last_month_start: (today.replace(day=1) - timedelta(days=1)).replace(day=1)
LastMonthStart(now) == replace_day(MinusDays(replace_day(now, 1), 1), 1)

\* the loop of spending_analysis (type "expense") and of income_analysis
\* (type "income"): the per-category dict and the total of the current month
\* grow together, those of last month in the elif
MonthOverMonthFrom(transactions, type, now, last_month_start) ==
    FoldLeft(LAMBDA acc, t :
                IF t.type # type THEN acc
                ELSE IF SameMonthAndYear(t, now)
                THEN [acc EXCEPT !.current = AddItem(@, t.category, t.amount),
                                 !.current_total = @ + t.amount]
                ELSE IF SameMonthAndYear(t, last_month_start)
                THEN [acc EXCEPT !.last = AddItem(@, t.category, t.amount),
                                 !.last_total = @ + t.amount]
                ELSE acc,
             [current |-> EmptyDict, current_total |-> 0,
              last |-> EmptyDict, last_total |-> 0,
              last_month_start |-> last_month_start],
             transactions)

MonthOverMonthLoop(transactions, type, now) ==
    MonthOverMonthFrom(transactions, type, now, LastMonthStart(now))

\* the figures spending_analysis / income_analysis print, from the number of
\* loaded transactions and the result of the loop
MonthOverMonthOut(op, n, r) ==
    IF n = 0
    THEN [op |-> op, status |-> "no_transactions"]
    ELSE IF r.current_total = 0
    THEN [op |-> op, status |-> "nothing_this_month"]
    ELSE [op |-> op, status |-> "shown",
          by_category |-> r.current, total |-> r.current_total,
          last_month_start |-> r.last_month_start,
          last_by_category |-> r.last, last_total |-> r.last_total]

MonthOverMonthOf(op, type, transactions) ==
    MonthOverMonthOut(op, Len(transactions), MonthOverMonthLoop(transactions, type, today))

\* spending_analysis / income_analysis up to the figures they print
MonthOverMonth(op, type) ==
    /\ out' = MonthOverMonthOf(op, type, read_transactions(txStore))
    /\ UNCHANGED <<txStore, budgetStore, goalStore, today>>

spending_analysis == MonthOverMonth("spending_analysis", kExpense)

income_analysis == MonthOverMonth("income_analysis", kIncome)

\* monthly_data[(year, month)][kind] += amount on
\* defaultdict(lambda: {"income": 0, "expense": 0})
AddMonthly(monthly_data, month_year, kind, amount) ==
    IF month_year \in DOMAIN monthly_data
    THEN [monthly_data EXCEPT ![month_year][kind] = @ + amount]
    ELSE SetItem(monthly_data, month_year,
                 [[income |-> 0, expense |-> 0] EXCEPT ![kind] = amount])

\* the first loop of savings_analysis
MonthlyData(transactions) ==
    FoldLeft(LAMBDA acc, t :
                IF t.type = kIncome
                THEN AddMonthly(acc, <<t.date.year, t.date.month>>, "income", t.amount)
                ELSE IF t.type = kExpense
                THEN AddMonthly(acc, <<t.date.year, t.date.month>>, "expense", t.amount)
                ELSE acc,
             EmptyDict,
             transactions)

\* monthly_data[target_month_year], the read of the defaultdict
GetMonthly(monthly_data, month_year) ==
    IF month_year \in DOMAIN monthly_data THEN monthly_data[month_year]
    ELSE [income |-> 0, expense |-> 0]

\* one pass of "for i in range(3)", from target_month and its entry
TrendEntry(target_month, data) ==
    [month |-> strftime_ym(target_month),
     income |-> data.income, expense |-> data.expense,
     savings |-> data.income - data.expense]

\* target_month = today.replace(day=1) - timedelta(days=30 * i)
TargetMonth(now, i) == MinusDays(replace_day(now, 1), 30 * i)

TrendAt(monthly_data, target_month) ==
    TrendEntry(target_month,
               GetMonthly(monthly_data, <<target_month.year, target_month.month>>))

\* savings_trend after savings_trend.reverse(): i = 2, 1, 0
SavingsTrend(monthly_data, now) ==
    <<TrendAt(monthly_data, TargetMonth(now, 2)),
      TrendAt(monthly_data, TargetMonth(now, 1)),
      TrendAt(monthly_data, TargetMonth(now, 0))>>

SavingsAnalysisOf(transactions) ==
    IF Len(transactions) = 0
    THEN [op |-> "savings_analysis", status |-> "no_transactions"]
    ELSE [op |-> "savings_analysis", status |-> "shown",
          savings_trend |-> SavingsTrend(MonthlyData(transactions), today)]

\* savings_analysis up to the trend table (the rates it prints are left out)
savings_analysis ==
    /\ out' = SavingsAnalysisOf(read_transactions(txStore))
    /\ UNCHANGED <<txStore, budgetStore, goalStore, today>>

\* the loop of financial_health_score over the current month
HealthScoreLoop(transactions, now) ==
    FoldLeft(LAMBDA acc, t :
                IF ~SameMonthAndYear(t, now) THEN acc
                ELSE IF t.type = kIncome
                THEN [acc EXCEPT !.total_income = @ + t.amount]
                ELSE IF t.type = kExpense
                THEN [acc EXCEPT !.total_expense = @ + t.amount,
                                 !.expenses_by_category =
                                     AddItem(@, t.category, t.amount)]
                ELSE acc,
             [total_income |-> 0, total_expense |-> 0,
              expenses_by_category |-> EmptyDict],
             transactions)

\* savings_rate >= pct and savings_rate > pct, for savings_rate =
\* (savings / income * 100) if income > 0 else 0
RateAtLeast(income, savings, pct) ==
    IF income > 0 THEN 100 * savings >= pct * income ELSE 0 >= pct

RateAbove(income, savings, pct) ==
    IF income > 0 THEN 100 * savings > pct * income ELSE 0 > pct

Recommend(text) == <<[text |-> text, categories |-> {}]>>

\* the simplified bands of the exported report, the faulty scoring the
\* savings-rate bands are checked against
savings_score_two_bands(income, savings) ==
    IF RateAtLeast(income, savings, 20) THEN [score |-> 40, recommendations |-> <<>>]
    ELSE IF RateAbove(income, savings, 0) THEN [score |-> 10, recommendations |-> <<>>]
    ELSE [score |-> 0, recommendations |-> <<>>]

\* the top band taken above 20% only, as rule 4 of smart_recommendations
\* tests it: the faulty scoring the coupling of the sub-scores is checked
\* against
savings_score_strict(income, savings) ==
    IF RateAbove(income, savings, 20) THEN [score |-> 40, recommendations |-> <<>>]
    ELSE IF RateAtLeast(income, savings, 10) THEN [score |-> 25, recommendations |-> <<>>]
    ELSE IF RateAbove(income, savings, 0) THEN [score |-> 10, recommendations |-> <<>>]
    ELSE [score |-> 0,
          recommendations |->
              Recommend("Increase your savings rate by reducing unnecessary expenses or increasing income.")]

\* 1. Savings Rate (40 points)
savings_score(income, savings) ==
    IF RateAtLeast(income, savings, 20) THEN [score |-> 40, recommendations |-> <<>>]
    ELSE IF RateAtLeast(income, savings, 10) THEN [score |-> 25, recommendations |-> <<>>]
    ELSE IF RateAbove(income, savings, 0) THEN [score |-> 10, recommendations |-> <<>>]
    ELSE [score |-> 0,
          recommendations |->
              Recommend("Increase your savings rate by reducing unnecessary expenses or increasing income.")]

Min(a, b) == IF a <= b THEN a ELSE b

\* [c for c, b in budgets_data.items() if expenses.get(c, 0) > b]
OverBudgetCategories(budgets_data, expenses) ==
    {c \in DOMAIN budgets_data : Get(expenses, c) > budgets_data[c]}

\* the three-way choice under "if total_budget_amount > 0"
AdherenceOf(total_budget_amount, total_spent_against_budget, over) ==
    IF total_budget_amount > 0
    THEN IF over = {} /\ total_spent_against_budget <= total_budget_amount
         THEN [score |-> 30, recommendations |-> <<>>]
         ELSE IF over = {}
         THEN [score |-> 20,
               recommendations |->
                   Recommend("Review your overall budget, as total spending exceeded total allocated budget.")]
         ELSE [score |-> 10,
               recommendations |->
                   <<[text |-> "Address overspending in categories", categories |-> over]>>]
    ELSE [score |-> 0,
          recommendations |-> Recommend("Set up budgets for better financial control.")]

\* the adherence with the spending of all categories, uncapped, held
\* against the total budget: the faulty scoring the absence of the 20 is
\* checked against
budget_adherence_score_uncapped(budgets_data, expenses) ==
    IF DOMAIN budgets_data = {}
    THEN [score |-> 0,
          recommendations |-> Recommend("Set up budgets to track your spending effectively.")]
    ELSE AdherenceOf(SumValues(budgets_data),
                     SumValues(expenses),
                     OverBudgetCategories(budgets_data, expenses))

\* 2. Budget Adherence (30 points): total_spent_against_budget counts each
\* category only up to its budget
budget_adherence_score(budgets_data, expenses) ==
    IF DOMAIN budgets_data = {}
    THEN [score |-> 0,
          recommendations |-> Recommend("Set up budgets to track your spending effectively.")]
    ELSE AdherenceOf(SumValues(budgets_data),
                     SumValues([c \in DOMAIN budgets_data |->
                                   Min(Get(expenses, c), budgets_data[c])]),
                     OverBudgetCategories(budgets_data, expenses))

\* the bands of the exported report, 30 / 20 / 0 on the savings rate: the
\* faulty scoring the income-vs-expense bands are checked against
income_vs_expense_score_by_rate(income, expense) ==
    IF RateAtLeast(income, income - expense, 20)
    THEN [score |-> 30, recommendations |-> <<>>]
    ELSE IF RateAbove(income, income - expense, 0)
    THEN [score |-> 20, recommendations |-> <<>>]
    ELSE [score |-> 0, recommendations |-> <<>>]

\* 3. Income vs Expenses (30 points); savings >= income * 0.2 is
\* 5 * savings >= income
income_vs_expense_score(income, expense) ==
    IF income > 0
    THEN IF 5 * (income - expense) >= income
         THEN [score |-> 30, recommendations |-> <<>>]
         ELSE IF income - expense > 0 THEN [score |-> 20, recommendations |-> <<>>]
         ELSE IF income - expense = 0
         THEN [score |-> 10,
               recommendations |-> Recommend("Aim to have positive savings (income > expenses).")]
         ELSE [score |-> 0,
               recommendations |->
                   Recommend("Your expenses exceed your income. Focus on reducing spending or increasing income.")]
    ELSE IF expense > 0
    THEN [score |-> 0,
          recommendations |->
              Recommend("No income recorded for the current month, but expenses exist. Please record your income.")]
    ELSE [score |-> 0, recommendations |-> <<>>]

\* the total of the exported report, which leaves the budget part out: the
\* faulty total the sum of the sub-scores is checked against
TotalWithoutBudgets(s, b, i) == s.score + i.score

\* score += savings_score; score += budget_adherence_score;
\* score += income_vs_expense_score
TotalScore(s, b, i) == s.score + b.score + i.score

\* the three sub-scores, their total and the recommendations in the order
\* they are appended
HealthScores(s, b, i) ==
    [savings_score |-> s.score,
     budget_adherence_score |-> b.score,
     income_vs_expense_score |-> i.score,
     score |-> TotalScore(s, b, i),
     savings_recommendations |-> s.recommendations,
     budget_recommendations |-> b.recommendations,
     income_recommendations |-> i.recommendations,
     recommendations |-> s.recommendations \o b.recommendations \o i.recommendations]

\* the current-month figures financial_health_score scores, and the scores
HealthOut(n, r, budgets_data) ==
    IF n = 0
    THEN [op |-> "financial_health_score", status |-> "no_transactions"]
    ELSE [op |-> "financial_health_score", status |-> "shown",
          total_income |-> r.total_income,
          by_category |-> r.expenses_by_category,
          total |-> r.total_expense,
          budgets |-> budgets_data]
         @@ HealthScores(savings_score(r.total_income, r.total_income - r.total_expense),
                         budget_adherence_score(budgets_data, r.expenses_by_category),
                         income_vs_expense_score(r.total_income, r.total_expense))

HealthOf(transactions, budgets_data) ==
    HealthOut(Len(transactions), HealthScoreLoop(transactions, today), budgets_data)

financial_health_score ==
    /\ out' = HealthOf(read_transactions(txStore), read_budgets(budgetStore))
    /\ UNCHANGED <<txStore, budgetStore, goalStore, today>>

\* {cat: sum(amount of the type in cat) for cat in set(categories of the type)}
\* of export_monthly_report, in paisa (the report holds each value / 100)
ByCategory(monthly_transactions, type) ==
    LET cats == {monthly_transactions[i].category :
                    i \in {j \in 1..Len(monthly_transactions) :
                              monthly_transactions[j].type = type}}
    IN  [cat \in cats |->
            SumAmounts(monthly_transactions,
                       LAMBDA t : t.type = type /\ t.category = cat)]

\* a utilization capped at 100 percent, as the progress bars are: the faulty
\* utilization the utilization property is checked against
UtilizationCapped(spent, budget) ==
    IF budget > 0 /\ spent <= budget THEN [num |-> 100 * spent, den |-> budget]
    ELSE IF budget > 0 THEN [num |-> 100, den |-> 1]
    ELSE [num |-> 0, den |-> 1]

\* (spent / budget * 100) if budget > 0 else 0, kept as the fraction
\* num / den
Utilization(spent, budget) ==
    IF budget > 0 THEN [num |-> 100 * spent, den |-> budget]
    ELSE [num |-> 0, den |-> 1]

\* 3. Budget Performance of the report
BudgetPerformance(budgets, expense_by_cat) ==
    [c \in DOMAIN budgets |->
        [budget |-> budgets[c],
         spent |-> Get(expense_by_cat, c),
         utilization |-> Utilization(Get(expense_by_cat, c), budgets[c])]]

ExportOf(report, budgets) ==
    IF report.status = "shown"
    THEN report @@ [budget_performance |-> BudgetPerformance(budgets, report.by_category)]
    ELSE report

\* 4. Financial Health Score of the report: savings_score +
\* income_vs_expense_score, both from summary["savings_rate"], "Max 70 without
\* budget score"
ExportHealthScore(total_income, net_savings) ==
    (IF RateAtLeast(total_income, net_savings, 20) THEN 40
     ELSE IF RateAbove(total_income, net_savings, 0) THEN 10 ELSE 0)
    + (IF RateAtLeast(total_income, net_savings, 20) THEN 30
       ELSE IF RateAbove(total_income, net_savings, 0) THEN 20 ELSE 0)

\* the summary, the two analyses and the health score of the report, from
\* the transactions of the current month
MonthlyReport(monthly_transactions) ==
    IF Len(monthly_transactions) = 0
    THEN [op |-> "export_monthly_report", status |-> "no_transactions"]
    ELSE [op |-> "export_monthly_report", status |-> "shown",
          total_income |->
              SumAmounts(monthly_transactions, LAMBDA t : t.type = kIncome),
          income_sources |-> ByCategory(monthly_transactions, kIncome),
          total |->
              SumAmounts(monthly_transactions, LAMBDA t : t.type = kExpense),
          by_category |-> ByCategory(monthly_transactions, kExpense),
          score |->
              ExportHealthScore(
                  SumAmounts(monthly_transactions, LAMBDA t : t.type = kIncome),
                  SumAmounts(monthly_transactions, LAMBDA t : t.type = kIncome)
                      - SumAmounts(monthly_transactions, LAMBDA t : t.type = kExpense))]

\* export_monthly_report up to the summary, the two analyses and the score
export_monthly_report ==
    /\ out' = ExportOf(MonthlyReport(SelectSeq(read_transactions(txStore),
                                               LAMBDA t : SameMonthAndYear(t, today))),
                       read_budgets(budgetStore))
    /\ UNCHANGED <<txStore, budgetStore, goalStore, today>>

\* rule 2 of smart_recommendations: the two totals filter on the month alone
MonthlyTotals(transactions) ==
    [op |-> "smart_recommendations",
     total_income |->
         SumAmounts(transactions, LAMBDA t : t.type = kIncome /\ SameMonth(t, today)),
     total_expense |->
         SumAmounts(transactions, LAMBDA t : t.type = kExpense /\ SameMonth(t, today))]

\* savings_rate > pct, for savings_rate =
\* ((total_income - total_expense) / total_income * 100) if total_income > 0
\* else -100
SavingsRateAbove(totals, pct) ==
    /\ totals.total_income > 0
    /\ 100 * (totals.total_income - totals.total_expense) > pct * totals.total_income

\* rules 3 and 4: over_budget_categories is assigned only inside
\* "if budgets:" (rule 1), and rule 4 reads it whenever savings_rate > 20, so
\* with no budgets the read raises NameError, which nothing catches
SmartRecommendationsOut(budgets, totals) ==
    IF SavingsRateAbove(totals, 20) /\ DOMAIN budgets = {}
    THEN totals @@ [status |-> "raised", error |-> "NameError"]
    ELSE totals @@ [status |-> "shown"]

\* smart_recommendations up to the recommendations
smart_recommendations ==
    /\ out' = SmartRecommendationsOut(read_budgets(budgetStore),
                                      MonthlyTotals(read_transactions(txStore)))
    /\ UNCHANGED <<txStore, budgetStore, goalStore, today>>

\* current_month_df = df[df['date'].dt.month == now.month]
CurrentMonthDf(transactions) ==
    IF Len(transactions) = 0
    THEN [op |-> "dashboard_page", status |-> "no_transactions"]
    ELSE [op |-> "dashboard_page", status |-> "shown",
          current_month_df |-> SelectSeq(transactions, LAMBDA t : SameMonth(t, today))]

\* the colour of a budget card of the dashboard, utilization =
\* (spent / budget_amount * 100) if budget_amount > 0 else 0
DashboardStatus(spent, budget) ==
    IF budget <= 0 THEN "green"
    ELSE IF 100 * spent < 70 * budget THEN "green"
    ELSE IF 100 * spent < 100 * budget THEN "amber"
    ELSE "red"

\* one card per budget: spent is the sum of the expenses of the category in
\* current_month_df
BudgetCards(budgets, current_month_df) ==
    [c \in DOMAIN budgets |->
        [budget |-> budgets[c],
         spent |-> SumAmounts(current_month_df,
                              LAMBDA t : t.category = c /\ t.type = kExpense),
         status |-> DashboardStatus(
                        SumAmounts(current_month_df,
                                   LAMBDA t : t.category = c /\ t.type = kExpense),
                        budgets[c])]]

DashboardOf(o, budgets) ==
    IF o.status = "shown"
    THEN o @@ [rows |-> BudgetCards(budgets, o.current_month_df)]
    ELSE o

\* dashboard_page: the frame its metrics are computed from and the budget
\* status section
dashboard_page ==
    /\ out' = DashboardOf(CurrentMonthDf(load_transactions(txStore)),
                          load_budgets(budgetStore))
    /\ UNCHANGED <<txStore, budgetStore, goalStore, today>>

\* "Income vs Expenses (30 points)" of analytics_page
income_vs_expense_score_web(income, expense) ==
    IF income > 0
    THEN IF 5 * (income - expense) >= income THEN 30
         ELSE IF income - expense > 0 THEN 20
         ELSE IF income - expense = 0 THEN 10
         ELSE 0
    ELSE 0

\* "Budget Adherence (30 points) - simplified for web"
WebAdherenceOf(over_budget_categories_count, len_budgets) ==
    IF over_budget_categories_count = 0 THEN 30
    ELSE IF 2 * over_budget_categories_count <= len_budgets THEN 15
    ELSE 5

WebAdherence(budgets, expense_df) ==
    IF DOMAIN budgets # {} /\ Len(expense_df) > 0
    THEN WebAdherenceOf(
             Cardinality({c \in DOMAIN budgets :
                             SumAmounts(expense_df, LAMBDA t : t.category = c)
                                 > budgets[c]}),
             Cardinality(DOMAIN budgets))
    ELSE IF DOMAIN budgets # {} THEN 30
    ELSE 0

\* the score of analytics_page from the totals of current_month_df;
\* total_score = min(score, 100)
WebScore(total_income, total_expense, adherence) ==
    [op |-> "analytics_page", status |-> "shown",
     savings_score |-> savings_score(total_income, total_income - total_expense).score,
     budget_adherence_score |-> adherence,
     income_vs_expense_score |->
         income_vs_expense_score_web(total_income, total_expense),
     score |-> Min(savings_score(total_income, total_income - total_expense).score
                       + adherence
                       + income_vs_expense_score_web(total_income, total_expense),
                   100)]

\* expense_df is assigned only under "if not current_month_df.empty:", and
\* "if budgets and not expense_df.empty" reads it whenever budgets is not
\* empty
AnalyticsPageOf(transactions, current_month_df, budgets) ==
    IF Len(transactions) = 0
    THEN [op |-> "analytics_page", status |-> "no_transactions"]
    ELSE IF Len(current_month_df) = 0 /\ DOMAIN budgets # {}
    THEN [op |-> "analytics_page", status |-> "raised", error |-> "NameError"]
    ELSE WebScore(SumAmounts(current_month_df, LAMBDA t : t.type = kIncome),
                  SumAmounts(current_month_df, LAMBDA t : t.type = kExpense),
                  WebAdherence(budgets,
                               SelectSeq(current_month_df,
                                         LAMBDA t : t.type = kExpense)))

\* analytics_page up to the financial health score
analytics_page ==
    /\ out' = AnalyticsPageOf(load_transactions(txStore),
                              SelectSeq(load_transactions(txStore),
                                        LAMBDA t : SameMonth(t, today)),
                              load_budgets(budgetStore))
    /\ UNCHANGED <<txStore, budgetStore, goalStore, today>>

\* the budget loop of view_budgets: int() raising ends the function
RECURSIVE ViewBudgetsBudgets(_, _, _)
ViewBudgetsBudgetStep(lines, i, budgets, parts) ==
    IF Len(parts) # 2 THEN ViewBudgetsBudgets(lines, i + 1, budgets)
    ELSE IF ~int(parts[2]).ok THEN [ok |-> FALSE, budgets |-> budgets]
    ELSE ViewBudgetsBudgets(lines, i + 1,
                            SetItem(budgets, parts[1], int(parts[2]).val))

ViewBudgetsBudgets(lines, i, budgets) ==
    IF i > Len(lines) THEN [ok |-> TRUE, budgets |-> budgets]
    ELSE ViewBudgetsBudgetStep(lines, i, budgets, split(strip(lines[i]), ","))

\* the transaction loop of view_budgets: strptime() or int() raising ends
\* the loop and the table is drawn from what was summed so far
RECURSIVE ViewBudgetsExpenses(_, _, _)
ViewBudgetsExpenseStep(lines, i, expenses, parts, date) ==
    IF Len(parts) # 5 THEN ViewBudgetsExpenses(lines, i + 1, expenses)
    ELSE IF ~date.ok THEN expenses
    ELSE IF date.month = today.month /\ date.year = today.year /\ parts[2] = kExpense
    THEN (IF ~int(parts[5]).ok THEN expenses
          ELSE ViewBudgetsExpenses(lines, i + 1,
                                   AddItem(expenses, parts[3], int(parts[5]).val)))
    ELSE ViewBudgetsExpenses(lines, i + 1, expenses)

ViewBudgetsExpenses(lines, i, expenses) ==
    IF i > Len(lines) THEN expenses
    ELSE ViewBudgetsExpenseStep(lines, i, expenses, split(strip(lines[i]), ","),
                                strptime(split(strip(lines[i]), ",")[1]))

\* status_text of view_budgets, utilization_percent =
\* (spent_amount / budget_amount * 100) if budget_amount > 0 else 0
ViewBudgetsStatus(spent, budget) ==
    IF budget <= 0 THEN "OK"
    ELSE IF 100 * spent < 70 * budget THEN "OK"
    ELSE IF 100 * spent <= 100 * budget THEN "Warning"
    ELSE "OVER"

\* the overall summary: total_spent adds the spending of the budgeted
\* categories
OverallSummary(budgets, expenses) ==
    [budget |-> SumValues(budgets),
     spent |-> SumValues([c \in DOMAIN budgets |-> Get(expenses, c)]),
     utilization |-> Utilization(SumValues([c \in DOMAIN budgets |-> Get(expenses, c)]),
                                 SumValues(budgets))]

ViewBudgetsOf(b, expenses) ==
    IF ~b.ok THEN [op |-> "view_budgets", status |-> "error"]
    ELSE IF DOMAIN b.budgets = {} THEN [op |-> "view_budgets", status |-> "no_budgets"]
    ELSE [op |-> "view_budgets", status |-> "shown",
          rows |-> [c \in DOMAIN b.budgets |->
                       [budget |-> b.budgets[c],
                        spent |-> Get(expenses, c),
                        utilization |-> Utilization(Get(expenses, c), b.budgets[c]),
                        status |-> ViewBudgetsStatus(Get(expenses, c), b.budgets[c])]],
          overall |-> OverallSummary(b.budgets, expenses),
          over_budget_categories |-> OverBudgetCategories(b.budgets, expenses)]

\* view_budgets up to the status column
view_budgets ==
    /\ out' = ViewBudgetsOf(ViewBudgetsBudgets(budgetStore, 1, EmptyDict),
                            ViewBudgetsExpenses(txStore, 1, EmptyDict))
    /\ UNCHANGED <<txStore, budgetStore, goalStore, today>>

\* the budget alerts of spending_alerts: utilization >= 80
BudgetAlerts(budgets, current_month_expenses) ==
    [c \in DOMAIN budgets |->
        [budget |-> budgets[c],
         spent |-> Get(current_month_expenses, c),
         utilization |-> Utilization(Get(current_month_expenses, c), budgets[c]),
         alert |-> Utilization(Get(current_month_expenses, c), budgets[c]).num
                       >= 80 * Utilization(Get(current_month_expenses, c), budgets[c]).den]]

\* the large transaction alerts: the expenses dated today above 20% of the
\* income of the month (the income is filtered on the month alone)
LargeTransactions(transactions, total_income_current_month) ==
    IF total_income_current_month > 0
    THEN SelectSeq(transactions,
                   LAMBDA t : /\ t.type = kExpense
                              /\ t.date = today
                              /\ 5 * t.amount > total_income_current_month)
    ELSE <<>>

SpendingAlertsOf(transactions, budgets) ==
    [op |-> "spending_alerts",
     budget_alerts |->
         BudgetAlerts(budgets,
                      ByCategory(SelectSeq(transactions,
                                           LAMBDA t : SameMonthAndYear(t, today)),
                                 kExpense)),
     large |->
         LargeTransactions(transactions,
                           SumAmounts(transactions,
                                      LAMBDA t : t.type = kIncome /\ SameMonth(t, today)))]

spending_alerts ==
    /\ out' = SpendingAlertsOf(read_transactions(txStore), read_budgets(budgetStore))
    /\ UNCHANGED <<txStore, budgetStore, goalStore, today>>

\* status_text of "4. Budget Performance"; spent > budget * 0.9 is
\* 10 * spent > 9 * budget
ReportStatus(spent, budget) ==
    IF spent > budget THEN "OVER BUDGET"
    ELSE IF 10 * spent > 9 * budget THEN "Nearing Limit"
    ELSE "OK"

\* "6. Next Month Projections (Simplified)"
Projection(total_income, total_expense) ==
    IF total_income > 0 /\ total_expense > 0
    THEN [shown |-> TRUE, projected_savings |-> total_income - total_expense]
    ELSE [shown |-> FALSE, projected_savings |-> 0]

ComprehensiveReportOf(transactions, total_income, total_expense, expenses_by_category, budgets_data) ==
    IF Len(transactions) = 0
    THEN [op |-> "generate_comprehensive_report", status |-> "no_transactions"]
    ELSE [op |-> "generate_comprehensive_report", status |-> "shown",
          total_income |-> total_income,
          total_expense |-> total_expense,
          projection |-> Projection(total_income, total_expense),
          rows |-> [c \in DOMAIN budgets_data |->
                       [budget |-> budgets_data[c],
                        spent |-> Get(expenses_by_category, c),
                        status |-> ReportStatus(Get(expenses_by_category, c),
                                                budgets_data[c])]]]

\* generate_comprehensive_report: the totals, the budget performance table
\* and the projection
generate_comprehensive_report ==
    /\ out' = ComprehensiveReportOf(
                  read_transactions(txStore),
                  SumAmounts(read_transactions(txStore),
                             LAMBDA t : t.type = kIncome /\ SameMonthAndYear(t, today)),
                  SumAmounts(read_transactions(txStore),
                             LAMBDA t : t.type = kExpense /\ SameMonthAndYear(t, today)),
                  ByCategory(SelectSeq(read_transactions(txStore),
                                       LAMBDA t : SameMonthAndYear(t, today)),
                             kExpense),
                  read_budgets(budgetStore))
    /\ UNCHANGED <<txStore, budgetStore, goalStore, today>>

\* the bulk load on its own, as every CLI feature starts with it
load ==
    /\ out' = [op |-> "read_transactions", transactions |-> read_transactions(txStore)]
    /\ UNCHANGED <<txStore, budgetStore, goalStore, today>>

\* the same through main.py's loader
web_load ==
    /\ out' = [op |-> "load_transactions", transactions |-> load_transactions(txStore)]
    /\ UNCHANGED <<txStore, budgetStore, goalStore, today>>

Init ==
    /\ txStore = <<>>
    /\ budgetStore = <<>>
    /\ goalStore = <<>>
    /\ today \in Todays
    /\ out = [op |-> "start"]

Next ==
    \/ add_expense
    \/ add_income
    \/ transactions_page_submit
    \/ set_budget
    \/ budgets_page_submit
    \/ import_transactions_csv
    \/ data_management_page_import
    \/ load
    \/ web_load
    \/ spending_analysis
    \/ income_analysis
    \/ financial_health_score
    \/ export_monthly_report
    \/ smart_recommendations
    \/ dashboard_page

Spec == Init /\ [][Next]_vars

(***************************************************************************)
(* show_balance and the reports on ledgers of lines the writers and the    *)
(* import leave in the store: an income, an expense, an expense written    *)
(* with a date text that is no date, an imported expense with a negative   *)
(* amount and an imported line of another type.                            *)
(***************************************************************************)
MaxLedgerLines == 3

\* one line of show_balance's loop: unpacking, strptime and int raise
\* ValueError, which skips the line; every type but 'income' adds to the
\* expenses
ShowBalanceStep(acc, parts) ==
    IF Len(parts) # 5 THEN acc
    ELSE IF ~strptime(parts[1]).ok THEN acc
    ELSE IF ~(strptime(parts[1]).month = today.month
              /\ strptime(parts[1]).year = today.year) THEN acc
    ELSE IF ~int(parts[5]).ok THEN acc
    ELSE IF parts[2] = kIncome
    THEN [acc EXCEPT !.total_income = @ + int(parts[5]).val]
    ELSE [acc EXCEPT !.total_expenses = @ + int(parts[5]).val]

ShowBalanceOf(lines) ==
    IF Len(lines) = 0 THEN [op |-> "show_balance", status |-> "no_transactions"]
    ELSE [op |-> "show_balance", status |-> "shown"]
         @@ FoldLeft(LAMBDA acc, line : ShowBalanceStep(acc, split(strip(line), ",")),
                     [total_income |-> 0, total_expenses |-> 0],
                     lines)

show_balance ==
    /\ out' = ShowBalanceOf(txStore)
    /\ UNCHANGED <<txStore, budgetStore, goalStore, today>>

LedgerLines ==
    {TransactionLine(dateCur, kIncome, cSalary, dPay, 1000),
     TransactionLine(dateCur, kExpense, cFood, dLunch, 500),
     TransactionLine(dateBad, kExpense, cFood, dLunch, 500),
     TransactionLine(dateCur, kExpense, cFood, dLunch, 0 - 500),
     TransactionLine(dateCur, kTransfer, cFood, dPay, 500)}

Ledgers ==
    UNION {[1..n -> LedgerLines] : n \in 0..MaxLedgerLines}

InitLedger ==
    /\ today \in Todays
    /\ txStore \in Ledgers
    /\ budgetStore = <<>>
    /\ goalStore = <<>>
    /\ out = [op |-> "start"]

NextLedger ==
    \/ show_balance
    \/ financial_health_score
    \/ export_monthly_report
    \/ generate_comprehensive_report

SpecLedger == InitLedger /\ [][NextLedger]_vars

(***************************************************************************)
(* Financial goals set and viewed over the same ledgers.                   *)
(***************************************************************************)
gCar == <<"C","a","r">>
gTrip == <<"T","r","i","p">>

\* what the prompts of set_financial_goal are answered with
GoalForms ==
    {[goal_name |-> gCar, target_amount_str |-> a5],
     [goal_name |-> gTrip, target_amount_str |-> a10]}

\* set_financial_goal: f"{goal_name},{target_amount_paisa},0"
set_financial_goal ==
    \E form \in GoalForms :
        /\ Len(form.goal_name) > 0
        /\ AmountValidator(form.target_amount_str)
        /\ FloatPositive(form.target_amount_str)
        /\ Len(goalStore) < MaxGoals
        /\ goalStore' = Append(goalStore,
                               join(<<form.goal_name,
                                      str(ToPaisa(form.target_amount_str).val),
                                      <<"0">>>>, ","))
        /\ out' = [op |-> "set_financial_goal", status |-> "added", form |-> form]
        /\ UNCHANGED <<txStore, budgetStore, today>>

\* progress_percent: (current_savings / target_paisa * 100) if
\* target_paisa > 0 else 0, then min(progress_percent, 100); kept as the
\* fraction num / den
ProgressPercent(current_savings, target_paisa) ==
    IF target_paisa <= 0 THEN [num |-> 0, den |-> 1]
    ELSE IF current_savings >= target_paisa THEN [num |-> 100, den |-> 1]
    ELSE [num |-> 100 * current_savings, den |-> target_paisa]

\* one goal of "for goal in goals": a line of another shape is passed over,
\* int() raising ends the function
GoalStep(acc, parts, current_savings) ==
    IF acc.status = "error" \/ Len(parts) # 3 THEN acc
    ELSE IF ~int(parts[2]).ok THEN [acc EXCEPT !.status = "error"]
    ELSE [acc EXCEPT !.goals =
              Append(@, [name |-> parts[1],
                         target |-> int(parts[2]).val,
                         current_savings |-> current_savings,
                         progress_percent |->
                             ProgressPercent(current_savings, int(parts[2]).val),
                         saved |-> Min(current_savings, int(parts[2]).val)])]

ViewGoalsOf(goals, current_savings) ==
    IF Len(goals) = 0 THEN [op |-> "view_financial_goals", status |-> "no_goals"]
    ELSE FoldLeft(LAMBDA acc, goal : GoalStep(acc, split(strip(goal), ","), current_savings),
                  [op |-> "view_financial_goals", status |-> "shown",
                   current_savings |-> current_savings, goals |-> <<>>],
                  goals)

\* view_financial_goals: current_savings is the income minus the expenses of
\* all the transactions the loader returns
view_financial_goals ==
    /\ out' = ViewGoalsOf(goalStore,
                          SumAmounts(read_transactions(txStore), LAMBDA t : t.type = kIncome)
                              - SumAmounts(read_transactions(txStore),
                                           LAMBDA t : t.type = kExpense))
    /\ UNCHANGED <<txStore, budgetStore, goalStore, today>>

NextGoals ==
    \/ set_financial_goal
    \/ view_financial_goals

SpecGoals == InitLedger /\ [][NextGoals]_vars

(***************************************************************************)
(* validate_data next to the operations that write the stores and to the   *)
(* bulk loader.                                                            *)
(***************************************************************************)
\* not amount_str.isdigit() and
\* not (amount_str.startswith('-') and amount_str[1:].isdigit())
NotAValidInteger(amount_str) ==
    /\ ~isdigit(amount_str)
    /\ ~(Len(amount_str) > 0 /\ amount_str[1] = "-" /\ isdigit(Tail(amount_str)))

\* a check of the columns and the amount that leaves the date out: the
\* faulty check the agreement of validator and loader is checked against
TransactionLineIssuesWithoutDate(i, parts) ==
    IF Len(parts) # 5 THEN <<[line |-> i, defect |-> "columns"]>>
    ELSE IF NotAValidInteger(parts[5]) THEN <<[line |-> i, defect |-> "amount"]>>
    ELSE <<>>

\* the issues printed for line i of transactions.txt
TransactionLineIssues(i, parts) ==
    IF Len(parts) # 5 THEN <<[line |-> i, defect |-> "columns"]>>
    ELSE (IF ~strptime(parts[1]).ok THEN <<[line |-> i, defect |-> "date"]>> ELSE <<>>)
         \o (IF NotAValidInteger(parts[5])
             THEN <<[line |-> i, defect |-> "amount"]>> ELSE <<>>)

\* the issues printed for line i of budgets.txt
BudgetLineIssues(i, parts) ==
    IF Len(parts) # 2 THEN <<[line |-> i, defect |-> "columns"]>>
    ELSE IF ~isdigit(parts[2]) THEN <<[line |-> i, defect |-> "amount"]>>
    ELSE <<>>

RECURSIVE ValidateTransactions(_, _, _)

\* a checker that stops at the first line with an issue: the faulty scan the
\* validation properties are checked against
ValidateStepHalting(lines, i, v, found) ==
    IF Len(found) > 0
    THEN [issues |-> v.issues \o found, issues_found |-> v.issues_found + Len(found)]
    ELSE ValidateTransactions(lines, i + 1, v)

\* "for i, line in enumerate(f, 1)": every issue is printed and counted, and
\* the loop goes on to the next line
ValidateStep(lines, i, v, found) ==
    ValidateTransactions(lines, i + 1,
                         [issues |-> v.issues \o found,
                          issues_found |-> v.issues_found + Len(found)])

ValidateTransactions(lines, i, v) ==
    IF i > Len(lines) THEN v
    ELSE ValidateStep(lines, i, v, TransactionLineIssues(i, split(strip(lines[i]), ",")))

RECURSIVE ValidateBudgets(_, _, _)
ValidateBudgets(lines, i, v) ==
    IF i > Len(lines) THEN v
    ELSE ValidateBudgets(lines, i + 1,
             [issues |-> v.issues \o BudgetLineIssues(i, split(strip(lines[i]), ",")),
              issues_found |->
                  v.issues_found + Len(BudgetLineIssues(i, split(strip(lines[i]), ",")))])

ValidationOf(t, b) ==
    [op |-> "validate_data",
     issues |-> t.issues,
     budget_issues |-> b.issues,
     issues_found |-> b.issues_found]

\* validate_data: issues_found runs on from the first file into the second
validate_data ==
    /\ out' = ValidationOf(
                  ValidateTransactions(txStore, 1, [issues |-> <<>>, issues_found |-> 0]),
                  ValidateBudgets(budgetStore, 1,
                      [issues |-> <<>>,
                       issues_found |->
                           ValidateTransactions(txStore, 1,
                               [issues |-> <<>>, issues_found |-> 0]).issues_found]))
    /\ UNCHANGED <<txStore, budgetStore, goalStore, today>>

NextValidate ==
    \/ add_expense
    \/ add_income
    \/ transactions_page_submit
    \/ set_budget
    \/ budgets_page_submit
    \/ import_transactions_csv
    \/ data_management_page_import
    \/ load
    \/ validate_data

SpecValidate == Init /\ [][NextValidate]_vars

(***************************************************************************)
(* Budgets set one after the other, for two categories and two amounts,    *)
(* from the prompt and from the page, and the two loaders.                 *)
(***************************************************************************)
set_budget_again ==
    SetBudget({[category |-> c, amount_str |-> a] : c \in {cFood, cBills}, a \in {a1, a5}},
              MaxBudgetAppends)

budgets_page_submit_again ==
    BudgetsPageSubmit({[category |-> c, amount |-> a] : c \in {cFood, cBills}, a \in {a1, a5}},
                      MaxBudgetAppends)

\* the budgets as a feature of the menu and a page read them
load_the_budgets ==
    /\ out' = [op |-> "read_budgets", budgets |-> read_budgets(budgetStore),
               web |-> load_budgets(budgetStore)]
    /\ UNCHANGED <<txStore, budgetStore, goalStore, today>>

NextBudgets ==
    \/ set_budget_again
    \/ budgets_page_submit_again
    \/ load_the_budgets

SpecBudgets == Init /\ [][NextBudgets]_vars

(***************************************************************************)
(* The scores and the budget statuses on a grid of ledgers of the current  *)
(* month: an income or none, food expenses in steps of half a rupee, bills *)
(* or none, against no budget, a zero budget, one budget and two budgets.  *)
(***************************************************************************)
MaxExpenseSteps == 23

OptionalLine(present, line) == IF present THEN <<line>> ELSE <<>>

ScoreLedgers ==
    {OptionalLine(income, TransactionLine(dateCur, kIncome, cSalary, dPay, 1000))
         \o OptionalLine(k > 0, TransactionLine(dateCur, kExpense, cFood, dLunch, 50 * k))
         \o OptionalLine(bills, TransactionLine(dateCur, kExpense, cBills, dPay, 400)) :
        income \in BOOLEAN, k \in 0..MaxExpenseSteps, bills \in BOOLEAN}

ScoreBudgets ==
    {<<>>,
     <<BudgetLine(cFood, 0)>>,
     <<BudgetLine(cFood, 500)>>,
     <<BudgetLine(cFood, 1000)>>,
     <<BudgetLine(cFood, 500), BudgetLine(cBills, 300)>>}

InitScore ==
    /\ today \in Todays
    /\ txStore \in ScoreLedgers
    /\ budgetStore \in ScoreBudgets
    /\ goalStore = <<>>
    /\ out = [op |-> "start"]

NextScore ==
    \/ financial_health_score
    \/ export_monthly_report
    \/ analytics_page
    \/ view_budgets
    \/ generate_comprehensive_report
    \/ dashboard_page
    \/ spending_alerts

SpecScore == InitScore /\ [][NextScore]_vars

(***************************************************************************)
(* The month arithmetic on every reference date: a ledger with an income   *)
(* and an expense dated on the reference date and an expense and an income *)
(* dated a month earlier, and the analyses that step through months.       *)
(***************************************************************************)
RefDates ==
    {date \in [year : FirstYear..LastYear, month : 1..12, day : 1..31] :
        date.day <= DaysInMonth(date.year, date.month)}

\* the month before a month, for dating the lines of the ledger
MonthBefore(date) ==
    IF date.month = 1 THEN [year |-> date.year - 1, month |-> 12, day |-> 1]
    ELSE [year |-> date.year, month |-> date.month - 1, day |-> 1]

CalendarLedger(now) ==
    <<TransactionLine(strftime(MonthBefore(now)), kExpense, cFood, dLunch, 250),
      TransactionLine(strftime(MonthBefore(now)), kIncome, cSalary, dPay, 100),
      TransactionLine(strftime(now), kIncome, cSalary, dPay, 1000),
      TransactionLine(strftime(now), kExpense, cFood, dLunch, 500)>>

InitCalendar ==
    /\ today \in RefDates
    /\ txStore = CalendarLedger(today)
    /\ budgetStore = <<>>
    /\ goalStore = <<>>
    /\ out = [op |-> "start"]

NextCalendar ==
    \/ savings_analysis
    \/ spending_analysis
    \/ income_analysis

SpecCalendar == InitCalendar /\ [][NextCalendar]_vars


(***************************************************************************)
(* Properties.                                                             *)
(***************************************************************************)
IsPrefix(s, t) == Len(s) <= Len(t) /\ SubSeq(t, 1, Len(s)) = s

Range(s) == {s[i] : i \in 1..Len(s)}

AppendOps == {"add_expense", "add_income", "transactions_page"}

\* the record of every line that is well formed on its own (five fields, a
\* date that parses, an integer amount), in file order
WellFormedRecords(lines) ==
    FoldLeft(LAMBDA acc, o : IF o.kind = "append" THEN Append(acc, o.t) ELSE acc,
             <<>>,
             [i \in 1..Len(lines) |-> LineOutcome(split(strip(lines[i]), ","))])

\* C1: the bulk loader (read_transactions / load_transactions) returns exactly
\* the well-formed lines of the store in file order; a malformed line is
\* dropped and the well-formed lines before and after it are still returned.
C1_LoaderReturnsWellFormedLines ==
    out.op \in {"read_transactions", "load_transactions"}
        => out.transactions = WellFormedRecords(txStore)

AmountField(parts) == int(parts[Len(parts)])

\* C3: every transaction line in the store has an amount > 0.
C3_StoredAmountsPositive ==
    \A i \in 1..Len(txStore) :
        /\ AmountField(split(txStore[i], ",")).ok
        /\ AmountField(split(txStore[i], ",")).val > 0

\* the last loaded record is the transaction the append reported
LastRecordIs(transactions, o, date) ==
    /\ Len(transactions) > 0
    /\ date.ok
    /\ transactions[Len(transactions)] =
           [date |-> [year |-> date.year, month |-> date.month, day |-> date.day],
            type |-> o.type, category |-> o.category,
            description |-> o.description, amount |-> o.amount]

\* C4: round trip: after an accepted append of a transaction with amount a,
\* the bulk load of the store returns a sequence whose last record is that
\* transaction (same date, kind, category, description) with amount a.
C4_AppendThenLoadRoundTrip ==
    (out.op \in AppendOps /\ out.status = "added")
        => /\ LastRecordIs(read_transactions(txStore), out, strptime(strip(out.date_str)))
           /\ LastRecordIs(load_transactions(txStore), out, strptime(strip(out.date_str)))

\* five comma-separated fields, a date that parses as YYYY-MM-DD, an integer
\* amount
WellShaped(parts) ==
    /\ Len(parts) = 5
    /\ strptime(parts[1]).ok
    /\ int(parts[5]).ok

\* C5: add_expense / add_income / write_transaction_to_file write a line only
\* if it has exactly five comma-separated fields, a date that parses as
\* YYYY-MM-DD and an integer amount.
C5_AppendWritesOnlyWellShapedLines ==
    (out.op \in AppendOps /\ out.status = "added")
        => WellShaped(split(txStore[Len(txStore)], ","))

\* the sum of the three counts an import reported (an import that read no
\* valid row reports the invalid count alone); -1 when it reported none
ReportedRows(o) ==
    IF o.status \in {"nothing_new", "cancelled", "imported"}
    THEN o.new + o.duplicates + o.invalid
    ELSE IF o.status = "no_valid_rows" THEN o.invalid
    ELSE 0 - 1

\* C6: an import of a file with the expected header classifies every data row
\* as validNew, duplicate or invalid, and the reported counts sum to the number
\* of data rows of the file.
C6_ImportCountsCoverEveryRow ==
    (out.op = "import_transactions_csv" /\ out.status # "invalid_header")
        => ReportedRows(out) = Len(CsvFiles[out.filepath].rows)

\* the validNew rows of a file against a store: the lines of the valid rows
\* that are textually identical to no stored line, in input order
ValidNew(rows, lines) ==
    FoldLeft(LAMBDA acc, o :
                IF o.kind = "valid" /\ o.line \notin Range(lines)
                THEN Append(acc, o.line) ELSE acc,
             <<>>,
             [i \in 1..Len(rows) |-> RowOutcome(rows[i])])

\* C7: a confirmed import_transactions_csv leaves the store equal to its
\* previous content followed by exactly the validNew rows in input order.
C7_ImportAppendsExactlyValidNew ==
    [][(out'.op = "import_transactions_csv" /\ out'.status = "imported")
          => txStore' = txStore \o ValidNew(CsvFiles[out'.filepath].rows, txStore)]_vars

\* C8: on both import paths, importing the same file again right after a
\* completed import of it leaves the number of stored lines unchanged.
C8_SecondImportAddsNothing ==
    [][(/\ out.op \in {"import_transactions_csv", "data_management_page"}
        /\ out.status = "imported"
        /\ out'.op = out.op
        /\ out'.filepath = out.filepath)
          => Len(txStore') = Len(txStore)]_vars

\* C9: in spending_analysis, income_analysis, financial_health_score and
\* export_monthly_report the grand total of a kind for the month equals the
\* sum of the per-category totals of that kind, in paisa.
C9_TotalIsSumOfCategories ==
    (/\ out.op \in {"spending_analysis", "income_analysis",
                    "financial_health_score", "export_monthly_report"}
     /\ out.status = "shown")
        => /\ SumValues(out.by_category) = out.total
           /\ out.op = "export_monthly_report"
                  => SumValues(out.income_sources) = out.total_income

\* C9, the case: an analysis has shown a month whose expenses fall in two
\* categories
C9_ShownTwoCategories ==
    /\ out.op \in {"spending_analysis", "export_monthly_report"}
    /\ out.status = "shown"
    /\ Cardinality(DOMAIN out.by_category) = 2
    /\ out.total > 0

\* sum of the amounts of a kind dated in the year and month of the reference
\* instant
MonthTotal(transactions, type) ==
    SumAmounts(transactions, LAMBDA t : t.type = type /\ SameMonthAndYear(t, today))

\* what each current-month aggregate shows, were it to count exactly the
\* transactions of the year and month of the reference instant
CountsYearAndMonth(o, transactions) ==
    /\ (o.op = "spending_analysis" /\ o.status = "shown")
           => o.total = MonthTotal(transactions, kExpense)
    /\ (o.op = "income_analysis" /\ o.status = "shown")
           => o.total = MonthTotal(transactions, kIncome)
    /\ (o.op \in {"financial_health_score", "export_monthly_report"}
            /\ o.status = "shown")
           => /\ o.total = MonthTotal(transactions, kExpense)
              /\ o.total_income = MonthTotal(transactions, kIncome)
    /\ o.op = "smart_recommendations"
           => /\ o.total_expense = MonthTotal(transactions, kExpense)
              /\ o.total_income = MonthTotal(transactions, kIncome)
    /\ (o.op = "dashboard_page" /\ o.status = "shown")
           => o.current_month_df =
                  SelectSeq(transactions, LAMBDA t : SameMonthAndYear(t, today))

\* C10: every current-month aggregate counts a transaction if and only if
\* both its year and its month are those of the reference instant.
C10_AggregatesFilterYearAndMonth ==
    CountsYearAndMonth(out, read_transactions(txStore))

\* C19: no operation ends in an uncaught exception, whatever the stores hold
\* (missing or empty stores included).
C19_NoUncaughtException ==
    "status" \in DOMAIN out => out.status # "raised"

\* the amount of a stored budget line
BudgetAmountField(parts) == int(parts[Len(parts)])

\* C20: every budget line written by set_budget / write_budget_to_file has
\* a positive integer amount of paisa.
C20_StoredBudgetsPositive ==
    \A i \in 1..Len(budgetStore) :
        /\ BudgetAmountField(split(budgetStore[i], ",")).ok
        /\ BudgetAmountField(split(budgetStore[i], ",")).val > 0

\* the calendar month immediately before the month of a date
PrecedingMonth(ym) ==
    IF ym.month = 1 THEN [year |-> ym.year - 1, month |-> 12]
    ELSE [year |-> ym.year, month |-> ym.month - 1]

YearMonthText(ym) == PadStr(ym.year, 4) \o <<"-">> \o PadStr(ym.month, 2)

\* C11: the savings trend lists, oldest to newest, the two calendar months
\* before the current one and then the current one, for every reference date.
C11_TrendIsThreeConsecutiveMonths ==
    (out.op = "savings_analysis" /\ out.status = "shown")
        => /\ Len(out.savings_trend) = 3
           /\ out.savings_trend[1].month = YearMonthText(PrecedingMonth(PrecedingMonth(today)))
           /\ out.savings_trend[2].month = YearMonthText(PrecedingMonth(today))
           /\ out.savings_trend[3].month = YearMonthText(today)

\* C12: the last month of spending_analysis and income_analysis is the
\* calendar month immediately before the current one, (year, month - 1) from
\* February to December and (year - 1, 12) in January, and last month's total
\* is the total of the transactions of that month.
C12_LastMonthIsPrecedingMonth ==
    (out.op \in {"spending_analysis", "income_analysis"} /\ out.status = "shown")
        => /\ out.last_month_start.year = PrecedingMonth(today).year
           /\ out.last_month_start.month = PrecedingMonth(today).month
           /\ out.last_total =
                  SumAmounts(read_transactions(txStore),
                             LAMBDA t : /\ t.type = (IF out.op = "spending_analysis"
                                                     THEN kExpense ELSE kIncome)
                                        /\ t.date.year = PrecedingMonth(today).year
                                        /\ t.date.month = PrecedingMonth(today).month)

\* C12, the case: an analysis run in January has taken December of the year
\* before as last month and found its transactions
C12_JanuaryLooksAtDecember ==
    /\ out.op = "spending_analysis"
    /\ out.status = "shown"
    /\ today.month = 1
    /\ out.last_month_start = [year |-> today.year - 1, month |-> 12, day |-> 1]
    /\ out.last_total = 250

\* the band the specification gives a utilization: below 70% OK, from 70% to
\* 100% inclusive Warning, above 100% Over-budget
CanonicalBand(spent, budget) ==
    IF 100 * spent < 70 * budget THEN "OK"
    ELSE IF spent <= budget THEN "Warning"
    ELSE "Over-budget"

\* the band a status text or a card colour of a call site stands for
BandOfStatus(status) ==
    IF status \in {"OK", "green"} THEN "OK"
    ELSE IF status \in {"Warning", "Nearing Limit", "amber"} THEN "Warning"
    ELSE "Over-budget"

\* C13: view_budgets, generate_comprehensive_report and the dashboard give
\* every budget with a positive amount the same status: OK below 70%
\* utilization, Warning from 70% to 100% inclusive, Over-budget above 100%.
C13_StatusBandsAgree ==
    (out.op \in {"view_budgets", "generate_comprehensive_report", "dashboard_page"}
        /\ out.status = "shown")
        => \A c \in DOMAIN out.rows :
               out.rows[c].budget > 0
                   => BandOfStatus(out.rows[c].status)
                          = CanonicalBand(out.rows[c].spent, out.rows[c].budget)

\* C14: on the same stores and reference date the score of the exported
\* monthly report and the score of the web analytics page both equal the
\* score of financial_health_score.
C14_ScoresAgreeAcrossCallSites ==
    (out.op \in {"export_monthly_report", "analytics_page"} /\ out.status = "shown")
        => out.score = HealthOf(read_transactions(txStore),
                                read_budgets(budgetStore)).score

\* C15: the total of financial_health_score is the sum of its three
\* sub-scores and lies between 0 and 100, whatever the income, the budgets
\* (none and zero-amount ones included) and the savings.
C15_TotalIsSumWithinRange ==
    (out.op = "financial_health_score" /\ out.status = "shown")
        => /\ out.score = out.savings_score + out.budget_adherence_score
                              + out.income_vs_expense_score
           /\ out.score >= 0
           /\ out.score <= 100

\* C15, the case: a month that earns every point of the three parts
C15_FullScore ==
    /\ out.op = "financial_health_score"
    /\ out.status = "shown"
    /\ out.savings_score = 40
    /\ out.budget_adherence_score = 30
    /\ out.income_vs_expense_score = 30
    /\ out.score = 100

Texts(recommendations) == {recommendations[i].text : i \in 1..Len(recommendations)}

\* the budgeted categories whose spending is above their budget
OverCategories(o) == {c \in DOMAIN o.budgets : Get(o.by_category, c) > o.budgets[c]}

\* spending in the budgeted categories, and the budgets, in total
SpentOnBudgeted(o) == SumValues([c \in DOMAIN o.budgets |-> Get(o.by_category, c)])

\* C16: the budget-adherence sub-score is 0 with a "set up budgets"
\* recommendation when no budget is stored; 30 when budgets are stored, no
\* category is over its budget and total spent is at most the total budget;
\* 20 with a "review overall budget" recommendation when no category is over
\* but total spent is above the total budget; 10 with a recommendation naming
\* exactly the over-budget categories when some category is over.
C16_AdherenceBands ==
    (out.op = "financial_health_score" /\ out.status = "shown")
        => /\ DOMAIN out.budgets = {}
                  => /\ out.budget_adherence_score = 0
                     /\ Texts(out.budget_recommendations)
                            = {"Set up budgets to track your spending effectively."}
           /\ (DOMAIN out.budgets # {} /\ OverCategories(out) = {}
                   /\ SpentOnBudgeted(out) <= SumValues(out.budgets))
                  => out.budget_adherence_score = 30
           /\ (DOMAIN out.budgets # {} /\ OverCategories(out) = {}
                   /\ SpentOnBudgeted(out) > SumValues(out.budgets))
                  => /\ out.budget_adherence_score = 20
                     /\ Texts(out.budget_recommendations)
                            = {"Review your overall budget, as total spending exceeded total allocated budget."}
           /\ OverCategories(out) # {}
                  => /\ out.budget_adherence_score = 10
                     /\ out.budget_recommendations
                            = <<[text |-> "Address overspending in categories",
                                 categories |-> OverCategories(out)]>>

\* C17: the savings-rate sub-score is 40 at a rate of 20% or more, 25 from
\* 10% to below 20%, 10 above 0 and below 10%, and 0 at a rate of 0 or less
\* (no income counts as a rate of 0); the "increase your savings rate"
\* recommendation is emitted in the 0 case and in no other.
C17_SavingsRateBands ==
    (out.op = "financial_health_score" /\ out.status = "shown")
        => LET income == out.total_income
               savings == out.total_income - out.total
               band == IF income <= 0 \/ savings <= 0 THEN 0
                       ELSE IF 10 * savings < income THEN 10
                       ELSE IF 5 * savings < income THEN 25
                       ELSE 40
           IN  /\ out.savings_score = band
               /\ (band = 0) <=>
                      (Texts(out.savings_recommendations)
                           = {"Increase your savings rate by reducing unnecessary expenses or increasing income."})
               /\ band # 0 => out.savings_recommendations = <<>>

\* C17, the case: a month whose savings rate lies between 10% and 20%
C17_MiddleBand ==
    /\ out.op = "financial_health_score"
    /\ out.status = "shown"
    /\ out.total_income > 0
    /\ 10 * (out.total_income - out.total) >= out.total_income
    /\ 5 * (out.total_income - out.total) < out.total_income
    /\ out.savings_score = 25

\* C18: the income-vs-expense sub-score is 0 without income in the current
\* month; with income it is 30 when savings are at least 20% of income, 20
\* when savings are positive, 10 with an "aim for positive savings"
\* recommendation when savings are zero, and 0 with an "expenses exceed
\* income" recommendation when savings are negative.
C18_IncomeVsExpenseBands ==
    (out.op = "financial_health_score" /\ out.status = "shown")
        => LET income == out.total_income
               savings == out.total_income - out.total
           IN  /\ income <= 0 => out.income_vs_expense_score = 0
               /\ (income > 0 /\ 5 * savings >= income)
                      => out.income_vs_expense_score = 30
               /\ (income > 0 /\ 5 * savings < income /\ savings > 0)
                      => out.income_vs_expense_score = 20
               /\ (income > 0 /\ savings = 0)
                      => /\ out.income_vs_expense_score = 10
                         /\ Texts(out.income_recommendations)
                                = {"Aim to have positive savings (income > expenses)."}
               /\ (income > 0 /\ savings < 0)
                      => /\ out.income_vs_expense_score = 0
                         /\ Texts(out.income_recommendations)
                                = {"Your expenses exceed your income. Focus on reducing spending or increasing income."}

\* C18, the case: a month that breaks even
C18_BreakEven ==
    /\ out.op = "financial_health_score"
    /\ out.status = "shown"
    /\ out.total_income > 0
    /\ out.total = out.total_income
    /\ out.income_vs_expense_score = 10
    /\ Len(out.income_recommendations) = 1

\* the categories of the stored budget lines, and the amount of the last
\* line of a category
StoredCategories(store) == {split(store[i], ",")[1] : i \in 1..Len(store)}

LastLineOf(store, c) ==
    CHOOSE i \in 1..Len(store) :
        /\ split(store[i], ",")[1] = c
        /\ \A j \in (i + 1)..Len(store) : split(store[j], ",")[1] # c

LastWins(store) ==
    [c \in StoredCategories(store) |->
        DigitsValue(split(store[LastLineOf(store, c)], ",")[2])]

\* the amount a submitted form stands for, in paisa
FormAmount(o) ==
    IF o.op = "set_budget" THEN ToPaisa(o.form.amount_str).val
    ELSE ToPaisa(o.form.amount).val

\* C21: after any sequence of budget appends the loaders map each category
\* to the amount of its most recently appended line, and appending a budget
\* for a category sets the loaded amount of that category and changes the
\* loaded amount of no other.
C21_BudgetLoadIsLastWins ==
    /\ [](/\ read_budgets(budgetStore) = LastWins(budgetStore)
          /\ load_budgets(budgetStore) = LastWins(budgetStore))
    /\ [][budgetStore' # budgetStore
              => /\ read_budgets(budgetStore')[out'.form.category] = FormAmount(out')
                 /\ \A c \in DOMAIN read_budgets(budgetStore) \ {out'.form.category} :
                        read_budgets(budgetStore')[c] = read_budgets(budgetStore)[c]]_vars

\* C21, the case: a category set twice with another category set in between
\* is loaded with the later amount, the other category with its own
C21_SetTwice ==
    /\ Len(budgetStore) = 3
    /\ budgetStore[1] = BudgetLine(cFood, 100)
    /\ budgetStore[2] = BudgetLine(cBills, 100)
    /\ budgetStore[3] = BudgetLine(cFood, 500)
    /\ out.op = "read_budgets"
    /\ out.budgets = (cFood :> 500) @@ (cBills :> 100)
    /\ out.web = out.budgets

\* a stored transaction line is malformed when it has another number of
\* columns than five, a date that does not parse or an amount that is no
\* integer
Malformed(parts) ==
    \/ Len(parts) # 5
    \/ ~strptime(parts[1]).ok
    \/ ~int(parts[5]).ok

UtilizationFigures(o) ==
    IF o.op = "view_budgets" /\ o.status = "shown"
    THEN {o.rows[c] : c \in DOMAIN o.rows} \cup {o.overall}
    ELSE IF o.op = "export_monthly_report" /\ o.status = "shown"
    THEN {o.budget_performance[c] : c \in DOMAIN o.budget_performance}
    ELSE IF o.op = "spending_alerts"
    THEN {o.budget_alerts[c] : c \in DOMAIN o.budget_alerts}
    ELSE {}

\* C23: at every call site (view_budgets per category and overall,
\* export_monthly_report, spending_alerts) the utilization is
\* spent / budget * 100 for a budget above 0 and 0 for a budget of 0, and for
\* a budget above 0 no smaller spending has a larger utilization.
C23_UtilizationFormula ==
    \A f \in UtilizationFigures(out) :
        /\ f.utilization.den > 0
        /\ f.budget > 0 => f.utilization.num * f.budget = 100 * f.spent * f.utilization.den
        /\ f.budget = 0 => f.utilization.num = 0
        /\ f.budget > 0 =>
               \A less \in 0..f.spent :
                   Utilization(less, f.budget).num * f.utilization.den
                       <= f.utilization.num * Utilization(less, f.budget).den

\* C23, the case: a category spent above its budget shown at 120 percent
C23_AboveHundred ==
    /\ out.op = "view_budgets"
    /\ out.status = "shown"
    /\ cFood \in DOMAIN out.rows
    /\ out.rows[cFood].budget = 500
    /\ out.rows[cFood].spent = 600
    /\ out.rows[cFood].utilization.num = 120 * out.rows[cFood].utilization.den

\* C25: in view_budgets a budgeted category is among the over-budget
\* categories of the recommendations if and only if its status is OVER; no
\* category is listed as over budget while its status is OK or Warning.
C25_OverBudgetIffStatusOver ==
    (out.op = "view_budgets" /\ out.status = "shown")
        => \A c \in DOMAIN out.rows :
               c \in out.over_budget_categories <=> out.rows[c].status = "OVER"

\* C24: the next-month projection of the report is current income minus
\* current expense when both are non-zero, and is left out when either of
\* them is exactly 0.
C24_ProjectionWhenBothNonZero ==
    (out.op = "generate_comprehensive_report" /\ out.status = "shown")
        => /\ (out.total_income # 0 /\ out.total_expense # 0)
                  => /\ out.projection.shown
                     /\ out.projection.projected_savings
                            = out.total_income - out.total_expense
           /\ (out.total_income = 0 \/ out.total_expense = 0)
                  => ~out.projection.shown

\* C26: the total income and the total expenses show_balance shows for the
\* current month are the totals financial_health_score and
\* export_monthly_report compute over the same store.
C26_BalanceTotalsAgree ==
    (out.op = "show_balance" /\ out.status = "shown")
        => /\ out.total_income
                  = HealthScoreLoop(read_transactions(txStore), today).total_income
           /\ out.total_expenses
                  = HealthScoreLoop(read_transactions(txStore), today).total_expense
           /\ out.total_income
                  = SumAmounts(read_transactions(txStore),
                               LAMBDA t : t.type = kIncome /\ SameMonthAndYear(t, today))
           /\ out.total_expenses
                  = SumAmounts(read_transactions(txStore),
                               LAMBDA t : t.type = kExpense /\ SameMonthAndYear(t, today))

\* C30: view_financial_goals reports for every goal the same saved amount
\* basis, the income minus the expenses of the whole ledger, a progress
\* percentage between 0 and 100, and a saved figure of min(net savings,
\* target) that lies between 0 and the target.
C30_GoalProgressWithinBounds ==
    (out.op = "view_financial_goals" /\ out.status = "shown")
        => \A k \in 1..Len(out.goals) :
               /\ out.goals[k].current_savings
                      = SumAmounts(read_transactions(txStore), LAMBDA t : t.type = kIncome)
                          - SumAmounts(read_transactions(txStore),
                                       LAMBDA t : t.type = kExpense)
               /\ out.goals[k].progress_percent.num >= 0
               /\ out.goals[k].progress_percent.num
                      <= 100 * out.goals[k].progress_percent.den
               /\ out.goals[k].saved
                      = Min(out.goals[k].current_savings, out.goals[k].target)
               /\ out.goals[k].saved >= 0
               /\ out.goals[k].saved <= out.goals[k].target

C28_SubScoresCoupled ==
    (out.op = "financial_health_score" /\ out.status = "shown")
        => /\ out.savings_score = 40 <=> out.income_vs_expense_score = 30
           /\ out.savings_score \in {10, 25} <=> out.income_vs_expense_score = 20
           /\ out.score >= 80
                  => (DOMAIN out.budgets # {} /\ SumValues(out.budgets) # 0)

\* C28, the case: a savings rate of exactly 20% with a category over its
\* budget, 40 + 10 + 30
C28_ExcellentWithBudgets ==
    /\ out.op = "financial_health_score"
    /\ out.status = "shown"
    /\ 5 * (out.total_income - out.total) = out.total_income
    /\ out.savings_score = 40
    /\ out.income_vs_expense_score = 30
    /\ out.budget_adherence_score = 10
    /\ out.score = 80

====
